---- MODULE Spec2Model ----
(***************************************************************************)
(* Model of the IT-helpdesk service of src/server.py: request validation,  *)
(* retrieval (retrieve_history), prompt construction (build_prompt), the   *)
(* NDJSON relay (ollama_stream) and its two consumers (post_query and      *)
(* chat_sse.event_stream).                                                 *)
(*                                                                         *)
(* Text is modelled as a sequence of one-character strings; a byte string  *)
(* is the same, with the symbol "xFF" standing for a byte that is not      *)
(* valid UTF-8.  Fixed template text is written as one multi-character     *)
(* symbol per fragment.                                                    *)
(***************************************************************************)
EXTENDS Integers, Sequences, FiniteSets, TLC

(***************************************************************************)
(* Bounds of the model.                                                    *)
(***************************************************************************)
\* Largest number of newline-terminated lines in an enumerated backend body.
MaxLines == 2
\* Character budget of the retrieved text: 2000 in the program, scaled down
\* with the corpus texts.
LLM_CONTEXT_LIMIT == 4

(***************************************************************************)
(* Program constants.                                                      *)
(***************************************************************************)
TOP_K == 3

(***************************************************************************)
(* Generic sequence helpers.                                               *)
(***************************************************************************)
IsPrefix(s, t) == Len(s) <= Len(t) /\ SubSeq(t, 1, Len(s)) = s

RECURSIVE Concat(_)
\* "".join(parts)
Concat(parts) ==
    IF parts = <<>> THEN <<>> ELSE Head(parts) \o Concat(Tail(parts))

RECURSIVE ToDigits(_)
\* str(n) for a natural number n
ToDigits(n) ==
    LET d == <<"0", "1", "2", "3", "4", "5", "6", "7", "8", "9">>[(n % 10) + 1]
    IN  IF n < 10 THEN <<d>> ELSE ToDigits(n \div 10) \o <<d>>

(***************************************************************************)
(* bytes.find(b"\n"): 0-based index of the first newline, -1 when absent.  *)
(***************************************************************************)
RECURSIVE FindFrom(_, _)
FindFrom(buf, i) ==
    IF i > Len(buf) THEN -1
    ELSE IF buf[i] = "\n" THEN i - 1
    ELSE FindFrom(buf, i + 1)

Find(buf) == FindFrom(buf, 1)

(***************************************************************************)
(* bytes.decode("utf-8", errors="ignore"): undecodable bytes are dropped.  *)
(***************************************************************************)
ValidByte(b) == b # "xFF"

Decode(bytes) == SelectSeq(bytes, ValidByte)

(***************************************************************************)
(* str.strip(): leading and trailing whitespace is removed.                *)
(***************************************************************************)
Whitespace == {" ", "\t", "\r", "\n"}

RECURSIVE LStrip(_)
LStrip(s) ==
    IF s # <<>> /\ Head(s) \in Whitespace THEN LStrip(Tail(s)) ELSE s

RECURSIVE RStrip(_)
RStrip(s) ==
    IF s # <<>> /\ s[Len(s)] \in Whitespace
    THEN RStrip(SubSeq(s, 1, Len(s) - 1))
    ELSE s

Strip(s) == RStrip(LStrip(s))

(***************************************************************************)
(* json.loads on the JSON subset the enumerated lines are written in:      *)
(* objects, strings (escapes \" \\ \/ \n \r \t), unsigned integers, true,  *)
(* false, null, with JSON whitespace between tokens.  No enumerated line   *)
(* contains "[", a sign, a fraction, an exponent or a \u escape.           *)
(* A value is [t |-> type, v |-> payload]; a parse result is               *)
(* [ok |-> BOOLEAN, val |-> value, next |-> index after the value].        *)
(***************************************************************************)
JsonWs == {" ", "\t", "\r", "\n"}
Digit == {"0", "1", "2", "3", "4", "5", "6", "7", "8", "9"}
ControlChar == {"\t", "\r", "\n"}

JNull == [t |-> "null", v |-> <<>>]
ParseFail == [ok |-> FALSE, val |-> JNull, next |-> 0]
ParseOk(val, next) == [ok |-> TRUE, val |-> val, next |-> next]

At(s, i) == IF i >= 1 /\ i <= Len(s) THEN s[i] ELSE "EOF"

RECURSIVE SkipWs(_, _)
SkipWs(s, i) ==
    IF At(s, i) \in JsonWs THEN SkipWs(s, i + 1) ELSE i

RECURSIVE ScanString(_, _, _)
\* s[i] is the first character after the opening quote
ScanString(s, i, acc) ==
    LET c == At(s, i)
        e == At(s, i + 1)
    IN  IF i > Len(s) THEN ParseFail
        ELSE IF c = "\"" THEN ParseOk([t |-> "str", v |-> acc], i + 1)
        ELSE IF c \in ControlChar THEN ParseFail
        ELSE IF c = "\\" THEN
            IF e \in {"\"", "\\", "/"} THEN ScanString(s, i + 2, Append(acc, e))
            ELSE IF e = "n" THEN ScanString(s, i + 2, Append(acc, "\n"))
            ELSE IF e = "r" THEN ScanString(s, i + 2, Append(acc, "\r"))
            ELSE IF e = "t" THEN ScanString(s, i + 2, Append(acc, "\t"))
            ELSE ParseFail
        ELSE ScanString(s, i + 1, Append(acc, c))

RECURSIVE ScanDigits(_, _)
ScanDigits(s, i) ==
    IF At(s, i) \in Digit THEN ScanDigits(s, i + 1) ELSE i

ParseNumber(s, i) ==
    LET j == IF s[i] = "0" THEN i + 1 ELSE ScanDigits(s, i)
    IN  ParseOk([t |-> "num", v |-> SubSeq(s, i, j - 1)], j)

ParseLiteral(s, i, word, val) ==
    IF i + Len(word) - 1 <= Len(s) /\ SubSeq(s, i, i + Len(word) - 1) = word
    THEN ParseOk(val, i + Len(word))
    ELSE ParseFail

RECURSIVE ParseValue(_, _)
RECURSIVE ParseMembers(_, _, _)

\* s[i] is expected to open a member name; obj holds the members read so far
ParseMembers(s, i, obj) ==
    IF At(s, i) # "\"" THEN ParseFail
    ELSE LET k == ScanString(s, i + 1, <<>>)
         IN  IF ~k.ok THEN ParseFail
             ELSE LET c == SkipWs(s, k.next)
                  IN  IF At(s, c) # ":" THEN ParseFail
                      ELSE LET m == ParseValue(s, SkipWs(s, c + 1))
                           IN  IF ~m.ok THEN ParseFail
                               ELSE LET obj2 == (k.val.v :> m.val) @@ obj
                                        e == SkipWs(s, m.next)
                                    IN  IF At(s, e) = "}"
                                        THEN ParseOk([t |-> "obj", v |-> obj2], e + 1)
                                        ELSE IF At(s, e) = ","
                                        THEN ParseMembers(s, SkipWs(s, e + 1), obj2)
                                        ELSE ParseFail

ParseValue(s, i) ==
    LET c == At(s, i)
    IN  IF c = "{" THEN
            LET j == SkipWs(s, i + 1)
            IN  IF At(s, j) = "}"
                THEN ParseOk([t |-> "obj", v |-> << >>], j + 1)
                ELSE ParseMembers(s, j, << >>)
        ELSE IF c = "\"" THEN ScanString(s, i + 1, <<>>)
        ELSE IF c \in Digit THEN ParseNumber(s, i)
        ELSE IF c = "t" THEN
            ParseLiteral(s, i, <<"t", "r", "u", "e">>, [t |-> "bool", v |-> TRUE])
        ELSE IF c = "f" THEN
            ParseLiteral(s, i, <<"f", "a", "l", "s", "e">>, [t |-> "bool", v |-> FALSE])
        ELSE IF c = "n" THEN
            ParseLiteral(s, i, <<"n", "u", "l", "l">>, JNull)
        ELSE ParseFail

\* json.loads(line): ok is FALSE where json.JSONDecodeError is raised
json_loads(line) ==
    LET r == ParseValue(line, SkipWs(line, 1))
    IN  IF r.ok /\ SkipWs(line, r.next) = Len(line) + 1 THEN r ELSE ParseFail

\* Python truth value of a decoded JSON value
Truthy(val) ==
    CASE val.t = "str" -> val.v # <<>>
      [] val.t = "num" -> val.v # <<"0">>
      [] val.t = "bool" -> val.v
      [] val.t = "null" -> FALSE
      [] val.t = "obj" -> DOMAIN val.v # {}

\* dict.get(key, default)
DictGet(obj, key, default) ==
    IF key \in DOMAIN obj.v THEN obj.v[key] ELSE default

KeyDone == <<"d", "o", "n", "e">>
KeyResponse == <<"r", "e", "s", "p", "o", "n", "s", "e">>

(***************************************************************************)
(* One iteration of the `while True` loop of ollama_stream on a buffer:    *)
(* what the iteration does (kind), the buffer it leaves and the token it   *)
(* yields.  kind is "break" (no newline), "continue" (blank line, or a     *)
(* frame without text), "yield", "return" (done frame) or "raise"          *)
(* (json.loads returned a value that has no .get).  Enumerated frames      *)
(* carry a string in "response", so a yielded piece is its text.           *)
(***************************************************************************)
LoopResult(kind, buf, tok) == [kind |-> kind, buffer |-> buf, token |-> tok]

\* Mutant of ScanStep: the rest of the buffer starts one byte too late
\* (buffer[nl + 2:]).
ScanStep_drops_a_byte(buf) ==
    LET nl == Find(buf)
        line == Strip(Decode(SubSeq(buf, 1, nl)))
        rest == SubSeq(buf, nl + 3, Len(buf))
        obj == json_loads(line)
        piece == DictGet(obj.val, KeyResponse, [t |-> "str", v |-> <<>>])
    IN  IF nl = -1 THEN LoopResult("break", buf, <<>>)
        ELSE IF line = <<>> THEN LoopResult("continue", rest, <<>>)
        ELSE IF ~obj.ok THEN LoopResult("yield", rest, line)
        ELSE IF obj.val.t # "obj" THEN LoopResult("raise", rest, <<>>)
        ELSE IF ~Truthy(DictGet(obj.val, KeyDone, JNull)) THEN
            IF Truthy(piece) THEN LoopResult("yield", rest, piece.v)
            ELSE LoopResult("continue", rest, <<>>)
        ELSE LoopResult("return", rest, <<>>)

\* Mutant of ScanStep: the text of a frame is yielded without the test
\* `if piece`.
ScanStep_yields_empty_piece(buf) ==
    LET nl == Find(buf)
        line == Strip(Decode(SubSeq(buf, 1, nl)))
        rest == SubSeq(buf, nl + 2, Len(buf))
        obj == json_loads(line)
        piece == DictGet(obj.val, KeyResponse, [t |-> "str", v |-> <<>>])
    IN  IF nl = -1 THEN LoopResult("break", buf, <<>>)
        ELSE IF line = <<>> THEN LoopResult("continue", rest, <<>>)
        ELSE IF ~obj.ok THEN LoopResult("yield", rest, line)
        ELSE IF obj.val.t # "obj" THEN LoopResult("raise", rest, <<>>)
        ELSE IF ~Truthy(DictGet(obj.val, KeyDone, JNull)) THEN
            LoopResult("yield", rest, piece.v)
        ELSE LoopResult("return", rest, <<>>)

\* Mutant of ScanStep: a done frame is skipped instead of ending the loop.
ScanStep_done_continues(buf) ==
    LET nl == Find(buf)
        line == Strip(Decode(SubSeq(buf, 1, nl)))
        rest == SubSeq(buf, nl + 2, Len(buf))
        obj == json_loads(line)
        piece == DictGet(obj.val, KeyResponse, [t |-> "str", v |-> <<>>])
    IN  IF nl = -1 THEN LoopResult("break", buf, <<>>)
        ELSE IF line = <<>> THEN LoopResult("continue", rest, <<>>)
        ELSE IF ~obj.ok THEN LoopResult("yield", rest, line)
        ELSE IF obj.val.t # "obj" THEN LoopResult("raise", rest, <<>>)
        ELSE IF ~Truthy(DictGet(obj.val, KeyDone, JNull)) THEN
            IF Truthy(piece) THEN LoopResult("yield", rest, piece.v)
            ELSE LoopResult("continue", rest, <<>>)
        ELSE LoopResult("continue", rest, <<>>)

ScanStep(buf) ==
    LET nl == Find(buf)
        line == Strip(Decode(SubSeq(buf, 1, nl)))
        rest == SubSeq(buf, nl + 2, Len(buf))
        obj == json_loads(line)
        piece == DictGet(obj.val, KeyResponse, [t |-> "str", v |-> <<>>])
    IN  IF nl = -1 THEN LoopResult("break", buf, <<>>)
        ELSE IF line = <<>> THEN LoopResult("continue", rest, <<>>)
        ELSE IF ~obj.ok THEN LoopResult("yield", rest, line)
        ELSE IF obj.val.t # "obj" THEN LoopResult("raise", rest, <<>>)
        ELSE IF ~Truthy(DictGet(obj.val, KeyDone, JNull)) THEN
            IF Truthy(piece) THEN LoopResult("yield", rest, piece.v)
            ELSE LoopResult("continue", rest, <<>>)
        ELSE LoopResult("return", rest, <<>>)

(***************************************************************************)
(* Exceptions: an HTTPException carries a status and a detail; for the     *)
(* others detail is str(e).                                                *)
(***************************************************************************)
NoError == [type |-> "none", status |-> 0, detail |-> <<>>]
HTTPException(status, detail) ==
    [type |-> "HTTPException", status |-> status, detail |-> detail]
OtherException(type) == [type |-> type, status |-> 0, detail |-> <<type>>]

\* f"Ollama API error: {resp.status_code} - {text.decode(errors='ignore')}"
OllamaErrorDetail(status, text) ==
    <<"Ollama API error: ">> \o ToDigits(status) \o <<" - ">> \o Decode(text)

(***************************************************************************)
(* Retrieval.  df is the loaded corpus column; the embedding model and the *)
(* index are external: env says whether encode and search raise and which  *)
(* identifiers search returns.                                            *)
(***************************************************************************)
df == << <<"v", "p", "n">>, <<"r", "e", "b", "o", "o", "t">> >>

\* df.iloc[i]: 0-based, negative positions count from the end
IlocInRange(i) == i >= -Len(df) /\ i < Len(df)
Iloc(i) == IF i >= 0 THEN df[i + 1] ELSE df[Len(df) + i + 1]

SearchIds == -1 .. Len(df)

RetrievalEnvs ==
    [encode : {"ok", "raise"}, search : {"ok", "raise"},
     indices : [1 .. TOP_K -> SearchIds]]

\* Mutant of Truncate: the last `limit` characters are kept (history[-LIMIT:]).
Truncate_keeps_tail(text, limit) ==
    IF Len(text) > limit THEN SubSeq(text, Len(text) - limit + 1, Len(text))
    ELSE text

\* history[: LIMIT]
Truncate(text, limit) ==
    IF Len(text) > limit THEN SubSeq(text, 1, limit) ELSE text

\* Mutant of retrieve_history: a failure leaves the function as an exception.
retrieve_history_propagates(query, env) ==
    LET best_idx == env.indices[1]
        failed == \/ env.encode = "raise"
                  \/ env.search = "raise"
                  \/ ~IlocInRange(best_idx)
        found == IF failed THEN <<>> ELSE Iloc(best_idx)
    IN  [raised |-> failed,
         failed |-> failed,
         history |-> IF found # <<>> /\ LLM_CONTEXT_LIMIT # 0
                     THEN Truncate(found, LLM_CONTEXT_LIMIT)
                     ELSE found]

retrieve_history(query, env) ==
    LET best_idx == env.indices[1]
        failed == \/ env.encode = "raise"
                  \/ env.search = "raise"
                  \/ ~IlocInRange(best_idx)
        found == IF failed THEN <<>> ELSE Iloc(best_idx)
    IN  [raised |-> FALSE,
         failed |-> failed,
         history |-> IF found # <<>> /\ LLM_CONTEXT_LIMIT # 0
                     THEN Truncate(found, LLM_CONTEXT_LIMIT)
                     ELSE found]

\* The fixed parts of the template of build_prompt.
RoleStatement ==
    "You are an expert IT helpdesk agent.\n\nThe following is a historical helpdesk ticket conversation:\n"
Delimiter == "---"
QueryIntro == "\n\nA user now asks: "
Instruction ==
    "\n\nBased on the above, summarize the issue and resolution (if applicable), then write a helpful and friendly support reply for the user. If the history is not directly relevant, still provide a best-effort, step-by-step IT troubleshooting answer.\n"

\* Mutant of build_prompt: without history the delimited block is left out.
build_prompt_omits_empty_history(history, user_msg) ==
    (IF history = <<>> THEN <<RoleStatement>>
     ELSE <<RoleStatement, Delimiter, "\n">> \o history
          \o <<"\n", Delimiter>>)
    \o <<QueryIntro, "\"">> \o user_msg \o <<"\"", Instruction>>

\* The f-string: the fixed parts are single symbols, history and user_msg are
\* inserted character by character.
build_prompt(history, user_msg) ==
    <<RoleStatement, Delimiter, "\n">>
    \o history
    \o <<"\n", Delimiter, QueryIntro, "\"">>
    \o user_msg
    \o <<"\"", Instruction>>

(***************************************************************************)
(* The generation backend (external): what it may answer.  A streamed body *)
(* is a sequence of newline-terminated lines; the lines enumerated are     *)
(* NDJSON frames as Ollama writes them and non-conforming lines.           *)
(***************************************************************************)
Quoted(text) == <<"\"">> \o text \o <<"\"">>
Member(key, valueText) == Quoted(key) \o <<":">> \o valueText
JsonFalse == <<"f", "a", "l", "s", "e">>
JsonTrue == <<"t", "r", "u", "e">>

\* {"response":"<text>","done":false}
TokenFrame(text) ==
    <<"{">> \o Member(KeyResponse, Quoted(text)) \o <<",">>
            \o Member(KeyDone, JsonFalse) \o <<"}">>

\* {"done":true}
DoneFrame == <<"{">> \o Member(KeyDone, JsonTrue) \o <<"}">>

Lines ==
    << TokenFrame(<<"H", "e">>),
       DoneFrame,
       <<"n", "o", "t", "-", "j", "s", "o", "n">>,
       <<" ", "n", "o", "xFF", "p", "e", "\r">>,
       <<"5">>,
       <<"\r">>,
       <<"{">> \o Member(<<"m">>, <<"1">>) \o <<",">>
               \o Member(KeyResponse, Quoted(<<>>)) \o <<"}">> >>

BodyOf(ls) == Concat([i \in 1 .. Len(ls) |-> Lines[ls[i]] \o <<"\n">>])

\* The body of the frame-splitting scenario: "He", "llo", done.
ExampleBody ==
    TokenFrame(<<"H", "e">>) \o <<"\n">> \o TokenFrame(<<"l", "l", "o">>) \o <<"\n">>
    \o DoneFrame \o <<"\n">>

Bodies ==
    {BodyOf(ls) : ls \in UNION {[1 .. n -> 1 .. Len(Lines)] : n \in 0 .. MaxLines}}
    \cup {ExampleBody}

\* Frames with and without text, with and without further members:
\* {"response":"He","done":false}, {"m":1,"response":"lo","done":false,"n":null},
\* {"done":false}, {"m":1,"response":""}, {"done":true}.
FrameLines ==
    << TokenFrame(<<"H", "e">>),
       <<"{">> \o Member(<<"m">>, <<"1">>) \o <<",">>
               \o Member(KeyResponse, Quoted(<<"l", "o">>)) \o <<",">>
               \o Member(KeyDone, JsonFalse) \o <<",">>
               \o Member(<<"n">>, <<"n", "u", "l", "l">>) \o <<"}">>,
       <<"{">> \o Member(KeyDone, JsonFalse) \o <<"}">>,
       Lines[7],
       DoneFrame >>

FrameBodies ==
    {Concat([i \in 1 .. Len(ls) |-> FrameLines[ls[i]] \o <<"\n">>]) :
        ls \in UNION {[1 .. n -> 1 .. Len(FrameLines)] : n \in 0 .. MaxLines}}

\* Bodies that end without a done frame and inside a line: some lines (a
\* token frame, a line of text), then a token frame, a done frame or a piece
\* of text that no newline follows.
Tails == {TokenFrame(<<"l", "l", "o">>), DoneFrame, <<"n", "o">>}

UnterminatedBodies ==
    {BodyOf(ls) \o tail :
        ls \in UNION {[1 .. n -> {1, 3}] : n \in 0 .. MaxLines}, tail \in Tails}

\* Two short bodies without a member in common: the lines a, b and the
\* lines c, (blank), d.
PairBodies ==
    { <<"a", "\n", "b", "\n">>, <<"c", "\n", "\n", "d", "\n">> }

\* What a redirect carries instead of frames: nothing, or a line of text.
RedirectBodies == {<<>>, BodyOf(<<3>>)}

BodiesFor(status) == IF status >= 300 THEN RedirectBodies ELSE Bodies

Statuses == {200, 302, 503}
ErrorTexts == {<<"o", "xFF", "o", "m">>}

(***************************************************************************)
(* Requests.  A message is the text of the `message` field (POST /query)   *)
(* or of the `q` parameter (GET /chat-sse); Missing stands for a request   *)
(* that does not carry it.                                                 *)
(***************************************************************************)
Missing == <<"<missing>">>
Messages == {Missing, <<>>, <<" ", "\t">>, <<" ", "h", "i", "\r">>}

\* f"data: {payload}\n\n"
SseUnit(payload) == <<"d", "a", "t", "a", ":", " ">> \o payload \o <<"\n", "\n">>
EndMarker == <<"[", "E", "N", "D", "]">>
BackendErrorTag ==
    <<"[", "B", "a", "c", "k", "e", "n", "d", " ", "e", "r", "r", "o", "r", "]", " ">>
MissingQueryMarker ==
    <<"[", "e", "r", "r", "o", "r", "]", " ", "m", "i", "s", "s", "i", "n", "g",
      " ", "q", "u", "e", "r", "y">>

\* Lines whose token meets the framing of the event stream: the text [END]
\* (not JSON), a frame whose text is "[Backend error] x", a frame whose text
\* holds a blank line (the JSON escapes \n\n) followed by "data: y"; and a
\* plain token frame and the done frame.
MarkerLines ==
    << EndMarker,
       TokenFrame(BackendErrorTag \o <<"x">>),
       TokenFrame(<<"x", "\\", "n", "\\", "n", "d", "a", "t", "a", ":", " ", "y">>),
       TokenFrame(<<"H", "e">>),
       DoneFrame >>

MarkerBodies ==
    {Concat([i \in 1 .. Len(ls) |-> MarkerLines[ls[i]] \o <<"\n">>]) :
        ls \in UNION {[1 .. n -> 1 .. Len(MarkerLines)] : n \in 0 .. MaxLines}}

(***************************************************************************)
(* State.  reqs is the set of requests of the behaviour.  backend names the *)
(* world around the program in the behaviour:                              *)
(*   "ndjson"       : the backend writes the lines of Lines; the embedding *)
(*                    model and the index behave in every way              *)
(*   "frames"       : the backend writes frames only                       *)
(*   "unterminated" : its bodies end inside a line                         *)
(*   "markers"      : its tokens look like the markers of the event stream *)
(*                    or hold newlines                                     *)
(*   "pair"         : it writes one of two short bodies                    *)
(* and in all but the first retrieval finds entry 0.                       *)
(* req[r] holds, for request r:                                            *)
(*   endpoint, message, user_msg, history, prompt : the handler's locals   *)
(*   pc        : "idle", "streaming" (consuming ollama_stream), "done",    *)
(*               "cancelled" (the client went away, the task was cancelled)*)
(*   nRetrieve, nBuild, nBackend : calls of retrieve_history, build_prompt *)
(*               and requests sent to the backend                          *)
(*   sent      : the payloads posted to the backend                        *)
(*   logged    : messages passed to log.exception                          *)
(*   fault     : the embedding call, the search or the lookup raised       *)
(*   best_idx  : the row the identifier the search put first names, when   *)
(*               retrieval found it (a set of at most one position; a      *)
(*               negative identifier counts from the end, as df.iloc does) *)
(*   http_status, kind, reply, detail : the response ("none", "error",     *)
(*               "reply", "stream")                                        *)
(*   out       : the list `out` of post_query, or the units the event      *)
(*               stream has sent                                           *)
(*   gen       : position of the ollama_stream generator: "none",          *)
(*               "created", "read" (awaiting bytes), "scan" (in the line   *)
(*               loop), "yielded", "returned", "raised", "abandoned"       *)
(*               (suspended at its yield, its consumer gone), "closed"     *)
(*               (left by CancelledError or GeneratorExit)                 *)
(*   status, body, pos : the backend's answer and how much of the body has *)
(*               been read                                                 *)
(*   buffer, token, error : the generator's buffer, the token it is        *)
(*               yielding and the exception it raised                      *)
(*   yielded   : history of the tokens the generator has yielded           *)
(*   split     : some read ended inside a line                             *)
(*   dropped   : a read of the body failed (connection dropped, timeout)   *)
(***************************************************************************)
VARIABLES reqs, req, backend

vars == <<reqs, req, backend>>

Fresh ==
    [endpoint |-> "none", message |-> <<>>, user_msg |-> <<>>,
     history |-> <<>>, prompt |-> <<>>, pc |-> "idle",
     nRetrieve |-> 0, nBuild |-> 0, nBackend |-> 0, logged |-> {},
     http_status |-> 0, kind |-> "none", reply |-> <<>>, detail |-> <<>>,
     out |-> <<>>,
     gen |-> "none", status |-> 0, body |-> <<>>, pos |-> 0,
     buffer |-> <<>>, token |-> <<>>, error |-> NoError,
     yielded |-> <<>>, split |-> FALSE, fault |-> FALSE, best_idx |-> {},
     dropped |-> FALSE, sent |-> {}]

Init ==
    /\ reqs = {1}
    /\ req = [r \in reqs |-> Fresh]
    /\ backend = "ndjson"

Set(r, q) == /\ req' = [req EXCEPT ![r] = q]
             /\ UNCHANGED <<reqs, backend>>

\* What the embedding model and the index may do.
Envs ==
    IF backend = "ndjson" THEN RetrievalEnvs
    ELSE {env \in RetrievalEnvs : /\ env.encode = "ok" /\ env.search = "ok"
                                  /\ \A i \in 1 .. TOP_K : env.indices[i] = 0}

\* The bodies the backend may send with a status.
Answers(status) ==
    CASE backend = "pair" -> PairBodies
      [] status >= 300 \/ backend = "ndjson" -> BodiesFor(status)
      [] backend = "unterminated" -> UnterminatedBodies
      [] backend = "markers" -> MarkerBodies
      [] OTHER -> FrameBodies

(***************************************************************************)
(* Handlers up to the first suspension point.                              *)
(***************************************************************************)
\* The part both handlers share once the message is accepted.  An exception
\* that leaves a handler is answered 500 by the framework.
Accepted(q, user_msg, env) ==
    LET ret == retrieve_history(user_msg, env)
        fault == \/ env.encode = "raise"
                 \/ env.search = "raise"
                 \/ ~IlocInRange(env.indices[1])
    IN  IF ret.raised
        THEN [q EXCEPT !.user_msg = user_msg, !.nRetrieve = 1, !.fault = fault,
                       !.pc = "done", !.http_status = 500, !.kind = "error",
                       !.detail = <<"Internal Server Error">>]
        ELSE [q EXCEPT !.user_msg = user_msg, !.nRetrieve = 1, !.fault = fault,
                       !.best_idx = IF fault THEN {}
                                    ELSE {env.indices[1] % Len(df)},
                       !.logged = IF ret.failed THEN {"Retrieval failed"} ELSE {},
                       !.history = ret.history,
                       !.nBuild = 1,
                       !.prompt = build_prompt(ret.history, user_msg),
                       !.pc = "streaming", !.gen = "created"]

\* Request validation of the framework: a required field or parameter.
Unprocessable(q) ==
    [q EXCEPT !.pc = "done", !.http_status = 422, !.kind = "error",
              !.detail = <<"field required">>]

\* Mutant of post_query: the message is tested without .strip().
post_query_no_strip(r) ==
    /\ req[r].pc = "idle"
    /\ \E m \in Messages, env \in Envs :
         LET q == [req[r] EXCEPT !.endpoint = "query", !.message = m]
             user_msg == m
         IN  Set(r, IF m = Missing THEN Unprocessable(q)
                    ELSE IF user_msg = <<>>
                    THEN [q EXCEPT !.pc = "done", !.http_status = 400,
                                   !.kind = "error",
                                   !.detail = <<"Missing 'message'">>]
                    ELSE Accepted(q, user_msg, env))

post_query(r) ==
    /\ req[r].pc = "idle"
    /\ \E m \in Messages, env \in Envs :
         LET q == [req[r] EXCEPT !.endpoint = "query", !.message = m]
             user_msg == Strip(m)
         IN  Set(r, IF m = Missing THEN Unprocessable(q)
                    ELSE IF user_msg = <<>>
                    THEN [q EXCEPT !.pc = "done", !.http_status = 400,
                                   !.kind = "error",
                                   !.detail = <<"Missing 'message'">>]
                    ELSE Accepted(q, user_msg, env))

chat_sse(r) ==
    /\ req[r].pc = "idle"
    /\ \E m \in Messages, env \in Envs :
         LET q == [req[r] EXCEPT !.endpoint = "sse", !.message = m]
             user_msg == Strip(m)
         IN  Set(r, IF m = Missing THEN Unprocessable(q)
                    ELSE IF user_msg = <<>>
                    THEN [q EXCEPT !.pc = "done", !.http_status = 200,
                                   !.kind = "stream",
                                   !.out = <<SseUnit(MissingQueryMarker)>>]
                    ELSE LET a == Accepted(q, user_msg, env)
                         IN  IF a.pc = "done" THEN a
                             ELSE [a EXCEPT !.http_status = 200,
                                            !.kind = "stream"])

(***************************************************************************)
(* ollama_stream, one action per stretch between suspension points.        *)
(***************************************************************************)
\* The JSON body of the POST; the model name and the options are fixed by
\* the configuration.
payload(prompt) ==
    [model |-> "MODEL_NAME", prompt |-> prompt, stream |-> TRUE,
     options |-> {"num_ctx", "num_predict", "temperature"}]

\* The POST to the backend and the check of its status.
ollama_stream_request(r) ==
    LET q == [req[r] EXCEPT !.nBackend = @ + 1,
                            !.sent = @ \cup {payload(req[r].prompt)}]
    IN  /\ req[r].pc = "streaming"
        /\ req[r].gen = "created"
        /\ \/ Set(r, [q EXCEPT !.gen = "raised",
                               !.error = OtherException("ConnectError")])
           \/ \E st \in {s \in Statuses : s >= 400}, text \in ErrorTexts :
                Set(r, [q EXCEPT !.status = st, !.body = text,
                                 !.pos = Len(text),
                                 !.gen = "raised",
                                 !.error = HTTPException(500,
                                               OllamaErrorDetail(st, text))])
           \/ \E st \in {s \in Statuses : s < 400} : \E b \in Answers(st) :
                Set(r, [q EXCEPT !.status = st, !.body = b, !.buffer = <<>>,
                                 !.gen = "read"])

\* Mutant of ollama_stream_read: the chunk replaces the buffer (= for +=).
ollama_stream_read_overwrite(r) ==
    LET q == req[r]
    IN  /\ q.gen = "read"
        /\ \E n \in 0 .. Len(q.body) - q.pos :
             Set(r, IF n = 0 THEN q
                    ELSE [q EXCEPT !.buffer = SubSeq(q.body, q.pos + 1, q.pos + n),
                                   !.pos = @ + n,
                                   !.gen = "scan"])

\* Mutant of ollama_stream_read: `buffer` is one module-level variable, so a
\* chunk also lands in the buffer of every other generator that is running.
ollama_stream_read_shared_buffer(r) ==
    LET q == req[r]
    IN  /\ q.gen = "read"
        /\ \E n \in 0 .. Len(q.body) - q.pos :
             LET chunk == SubSeq(q.body, q.pos + 1, q.pos + n)
             IN  /\ req' = [x \in reqs |->
                             IF n = 0 THEN req[x]
                             ELSE IF x = r
                             THEN [q EXCEPT !.buffer = @ \o chunk,
                                            !.pos = @ + n, !.gen = "scan"]
                             ELSE IF req[x].gen \in {"read", "scan", "yielded"}
                             THEN [req[x] EXCEPT !.buffer = @ \o chunk]
                             ELSE req[x]]
                 /\ UNCHANGED <<reqs, backend>>

\* aiter_bytes delivers the next chunk (an empty one is skipped).
ollama_stream_read(r) ==
    LET q == req[r]
    IN  /\ q.gen = "read"
        /\ \E n \in 0 .. Len(q.body) - q.pos :
             Set(r, IF n = 0 THEN q
                    ELSE [q EXCEPT !.buffer = @ \o SubSeq(q.body, q.pos + 1, q.pos + n),
                                   !.pos = @ + n,
                                   !.gen = "scan"])

\* Mutant of ollama_stream_eof: what is left in the buffer is yielded as a
\* last token before the generator ends.
ollama_stream_eof_flushes_buffer(r) ==
    LET q == req[r]
        line == Strip(Decode(q.buffer))
    IN  /\ q.gen = "read"
        /\ q.pos = Len(q.body)
        /\ Set(r, IF line = <<>> THEN [q EXCEPT !.gen = "returned"]
                  ELSE [q EXCEPT !.buffer = <<>>, !.token = line,
                                 !.yielded = Append(@, line),
                                 !.gen = "yielded"])

\* The body is exhausted: the generator falls off its loop.
ollama_stream_eof(r) ==
    /\ req[r].gen = "read"
    /\ req[r].pos = Len(req[r].body)
    /\ Set(r, [req[r] EXCEPT !.gen = "returned"])

\* Mutant of ollama_stream_transport_error: the failed read is caught and the
\* generator returns.
ollama_stream_transport_error_as_end(r) ==
    /\ req[r].gen = "read"
    /\ Set(r, [req[r] EXCEPT !.gen = "returned", !.dropped = TRUE])

\* aiter_bytes raises (connection dropped, read timeout).
ollama_stream_transport_error(r) ==
    /\ req[r].gen = "read"
    /\ Set(r, [req[r] EXCEPT !.gen = "raised", !.dropped = TRUE,
                             !.error = OtherException("ReadError")])

\* One iteration of the line loop.
ollama_stream_scan(r) ==
    LET q == req[r]
        s == ScanStep(q.buffer)
    IN  /\ q.gen = "scan"
        /\ Set(r, CASE s.kind = "break" ->
                         [q EXCEPT !.gen = "read",
                                   !.split = @ \/ q.buffer # <<>>]
                    [] s.kind = "continue" ->
                         [q EXCEPT !.buffer = s.buffer]
                    [] s.kind = "yield" ->
                         [q EXCEPT !.buffer = s.buffer, !.token = s.token,
                                   !.yielded = Append(@, s.token),
                                   !.gen = "yielded"]
                    [] s.kind = "return" ->
                         [q EXCEPT !.buffer = s.buffer, !.gen = "returned"]
                    [] s.kind = "raise" ->
                         [q EXCEPT !.buffer = s.buffer, !.gen = "raised",
                                   !.error = OtherException("AttributeError")])

(***************************************************************************)
(* post_query consuming the generator.                                     *)
(***************************************************************************)
\* Mutant of post_query_token: the token is inserted at the front of `out`.
post_query_token_prepend(r) ==
    /\ req[r].endpoint = "query"
    /\ req[r].gen = "yielded"
    /\ Set(r, [req[r] EXCEPT !.out = <<req[r].token>> \o @, !.gen = "scan"])

post_query_token(r) ==
    /\ req[r].endpoint = "query"
    /\ req[r].gen = "yielded"
    /\ Set(r, [req[r] EXCEPT !.out = Append(@, req[r].token), !.gen = "scan"])

post_query_return(r) ==
    /\ req[r].endpoint = "query"
    /\ req[r].pc = "streaming"
    /\ req[r].gen = "returned"
    /\ Set(r, [req[r] EXCEPT !.reply = Concat(req[r].out),
                             !.http_status = 200, !.kind = "reply",
                             !.pc = "done"])

\* Mutant of post_query_except: the failure is swallowed and the tokens
\* received so far are returned.
post_query_except_partial(r) ==
    /\ req[r].endpoint = "query"
    /\ req[r].pc = "streaming"
    /\ req[r].gen = "raised"
    /\ Set(r, [req[r] EXCEPT !.reply = Concat(req[r].out),
                             !.http_status = 200, !.kind = "reply",
                             !.pc = "done"])

\* Mutant of post_query_except: a failed generation is tried a second time
\* before the failure is reported.
post_query_except_retries(r) ==
    LET q == req[r]
    IN  /\ q.endpoint = "query"
        /\ q.pc = "streaming"
        /\ q.gen = "raised"
        /\ Set(r, IF q.nBackend < 2
                  THEN [q EXCEPT !.gen = "created", !.error = NoError,
                                 !.out = <<>>, !.yielded = <<>>, !.pos = 0]
                  ELSE [q EXCEPT !.http_status = 500,
                                 !.kind = "error",
                                 !.detail = <<"LLM error: ">> \o q.error.detail,
                                 !.pc = "done"])

post_query_except(r) ==
    LET q == req[r]
    IN  /\ q.endpoint = "query"
        /\ q.pc = "streaming"
        /\ q.gen = "raised"
        /\ Set(r, IF q.error.type = "HTTPException"
                  THEN [q EXCEPT !.http_status = q.error.status,
                                 !.kind = "error",
                                 !.detail = q.error.detail,
                                 !.pc = "done"]
                  ELSE [q EXCEPT !.logged = @ \cup {"LLM generation failed"},
                                 !.http_status = 500,
                                 !.kind = "error",
                                 !.detail = <<"LLM error: ">> \o q.error.detail,
                                 !.pc = "done"])

(***************************************************************************)
(* chat_sse.event_stream consuming the generator.                          *)
(***************************************************************************)
event_stream_token(r) ==
    /\ req[r].endpoint = "sse"
    /\ req[r].gen = "yielded"
    /\ Set(r, [req[r] EXCEPT !.out = Append(@, SseUnit(req[r].token)),
                             !.gen = "scan"])

\* Mutant of event_stream_end: the stream closes without the end marker.
event_stream_end_silent(r) ==
    /\ req[r].endpoint = "sse"
    /\ req[r].pc = "streaming"
    /\ req[r].gen = "returned"
    /\ Set(r, [req[r] EXCEPT !.pc = "done"])

event_stream_end(r) ==
    /\ req[r].endpoint = "sse"
    /\ req[r].pc = "streaming"
    /\ req[r].gen = "returned"
    /\ Set(r, [req[r] EXCEPT !.out = Append(@, SseUnit(EndMarker)),
                             !.pc = "done"])

\* Mutant of event_stream_except: the end marker follows the error marker.
event_stream_except_then_end(r) ==
    /\ req[r].endpoint = "sse"
    /\ req[r].pc = "streaming"
    /\ req[r].gen = "raised"
    /\ Set(r, [req[r] EXCEPT
                 !.out = @ \o <<SseUnit(BackendErrorTag \o req[r].error.detail),
                                SseUnit(EndMarker)>>,
                 !.pc = "done"])

event_stream_except(r) ==
    /\ req[r].endpoint = "sse"
    /\ req[r].pc = "streaming"
    /\ req[r].gen = "raised"
    /\ Set(r, [req[r] EXCEPT
                 !.out = Append(@, SseUnit(BackendErrorTag \o req[r].error.detail)),
                 !.pc = "done"])

(***************************************************************************)
(* The client of a live stream goes away.  The server cancels the task     *)
(* that iterates event_stream; CancelledError is raised at the await the   *)
(* task is suspended at.  It is a BaseException: neither except clause of  *)
(* event_stream catches it.                                                *)
(***************************************************************************)
\* The relay holds the connection while it is inside `async with`.
ConnectionOpen(q) == q.gen \in {"read", "scan", "yielded", "abandoned"}

\* Mutant of client_disconnect: the relay is not told when it is waiting for
\* bytes; only the adapter stops.
client_disconnect_relay_unaware(r) ==
    LET q == req[r]
    IN  /\ q.endpoint = "sse"
        /\ q.pc = "streaming"
        /\ \/ /\ q.gen = "read"
              /\ Set(r, [q EXCEPT !.pc = "cancelled"])
           \/ /\ q.gen = "yielded"
              /\ Set(r, [q EXCEPT !.out = Append(@, SseUnit(q.token)),
                                  !.pc = "cancelled", !.gen = "abandoned"])

\* Either the task waits for bytes inside ollama_stream: the error leaves
\* the generator through both `async with`, which close the connection.  Or
\* the adapter has handed the unit of a token to the server and is suspended
\* (at its yield or at sleep(0)): the error leaves event_stream, and
\* ollama_stream stays suspended at its own yield.
client_disconnect(r) ==
    LET q == req[r]
    IN  /\ q.endpoint = "sse"
        /\ q.pc = "streaming"
        /\ \/ /\ q.gen = "read"
              /\ Set(r, [q EXCEPT !.pc = "cancelled", !.gen = "closed"])
           \/ /\ q.gen = "yielded"
              /\ Set(r, [q EXCEPT !.out = Append(@, SseUnit(q.token)),
                                  !.pc = "cancelled", !.gen = "abandoned"])

\* The event loop's finalizer hook closes a generator nobody holds any more:
\* GeneratorExit is raised at the yield and leaves through both `async with`.
asyncgen_finalizer(r) ==
    /\ req[r].gen = "abandoned"
    /\ Set(r, [req[r] EXCEPT !.gen = "closed"])

Next ==
    \/ \E r \in reqs : post_query(r)
    \/ \E r \in reqs : chat_sse(r)
    \/ \E r \in reqs : ollama_stream_request(r)
    \/ \E r \in reqs : ollama_stream_read(r)
    \/ \E r \in reqs : ollama_stream_eof(r)
    \/ \E r \in reqs : ollama_stream_transport_error(r)
    \/ \E r \in reqs : ollama_stream_scan(r)
    \/ \E r \in reqs : post_query_token(r)
    \/ \E r \in reqs : post_query_return(r)
    \/ \E r \in reqs : post_query_except(r)
    \/ \E r \in reqs : event_stream_token(r)
    \/ \E r \in reqs : event_stream_end(r)
    \/ \E r \in reqs : event_stream_except(r)
    \/ \E r \in reqs : client_disconnect(r)
    \/ \E r \in reqs : asyncgen_finalizer(r)

Spec == Init /\ [][Next]_vars

\* The same program in front of a backend that writes frames only.
FrameInit ==
    /\ reqs = {1}
    /\ req = [r \in reqs |-> Fresh]
    /\ backend = "frames"

FrameSpec == FrameInit /\ [][Next]_vars

\* The same program in front of a backend whose bodies end inside a line.
UnterminatedInit ==
    /\ reqs = {1}
    /\ req = [r \in reqs |-> Fresh]
    /\ backend = "unterminated"

UnterminatedSpec == UnterminatedInit /\ [][Next]_vars

\* The same program in front of a backend whose tokens look like markers.
MarkerInit ==
    /\ reqs = {1}
    /\ req = [r \in reqs |-> Fresh]
    /\ backend = "markers"

MarkerSpec == MarkerInit /\ [][Next]_vars

\* Two requests in flight at once, their steps interleaved in every way.
PairInit ==
    /\ reqs = {1, 2}
    /\ req = [r \in reqs |-> Fresh]
    /\ backend = "pair"

PairSpec == PairInit /\ [][Next]_vars

(***************************************************************************)
(* Properties.                                                             *)
(***************************************************************************)
Started(q) == q.gen \in {"read", "scan", "yielded", "returned", "raised"}

\* The complete lines of a byte string, without their newlines.
RECURSIVE SplitLines(_)
SplitLines(buf) ==
    LET nl == Find(buf)
    IN  IF nl = -1 THEN <<>>
        ELSE <<SubSeq(buf, 1, nl)>> \o SplitLines(SubSeq(buf, nl + 2, Len(buf)))

\* The line is a JSON object (a frame), possibly between whitespace.
IsFrame(raw) ==
    LET o == json_loads(Strip(Decode(raw)))
    IN  o.ok /\ o.val.t = "obj"

IsDoneFrame(raw) ==
    LET o == json_loads(Strip(Decode(raw)))
    IN  IsFrame(raw) /\ Truthy(DictGet(o.val, KeyDone, JNull))

\* The bytes the line loop has taken out of the buffer so far.
Consumed(q) == SubSeq(q.body, 1, q.pos - Len(q.buffer))

DoneParsed(q) ==
    /\ q.status \in 200 .. 399
    /\ \E i \in 1 .. Len(SplitLines(Consumed(q))) :
         IsDoneFrame(SplitLines(Consumed(q))[i])

\* What the line loop does with the whole body in its buffer (one read).
RECURSIVE Drain(_, _)
Drain(buf, toks) ==
    LET s == ScanStep(buf)
    IN  CASE s.kind = "break" -> [tokens |-> toks, end |-> "exhausted"]
          [] s.kind = "continue" -> Drain(s.buffer, toks)
          [] s.kind = "yield" -> Drain(s.buffer, Append(toks, s.token))
          [] s.kind = "return" -> [tokens |-> toks, end |-> "done"]
          [] s.kind = "raise" -> [tokens |-> toks, end |-> "raise"]

\* C1: however the body is cut into reads, the tokens ollama_stream yields
\* are those it yields when the whole body arrives in one read: each token
\* yielded extends a prefix of them, and the generator ends by itself having
\* yielded all of them (with the same kind of ending).
C1_ChunkBoundaryIndependence ==
    \A r \in reqs :
        LET q == req[r]
            whole == Drain(q.body, <<>>)
        IN  (Started(q) /\ q.status \in 200 .. 399) =>
               /\ q.gen = "yielded" => IsPrefix(q.yielded, whole.tokens)
               /\ q.gen = "returned" =>
                    /\ q.yielded = whole.tokens
                    /\ whole.end \in {"done", "exhausted"}
               /\ (q.gen = "raised" /\ q.error.type = "AttributeError") =>
                    /\ q.yielded = whole.tokens
                    /\ whole.end = "raise"

\* C1 witness: the frame-splitting scenario, read in pieces that cut a line,
\* has ended after yielding exactly "He", "llo".
C1_Witness ==
    \E r \in reqs :
        /\ req[r].body = ExampleBody
        /\ req[r].split
        /\ req[r].gen = "returned"
        /\ req[r].yielded = << <<"H", "e">>, <<"l", "l", "o">> >>

\* C2: once a frame with a true `done` has been taken out of the buffer, no
\* step yields a further token.
C2_DoneIsTerminal ==
    [][\A r \in reqs :
          req'[r].yielded # req[r].yielded => ~DoneParsed(req[r])]_vars

\* C2 witness: the generator has returned on a done frame while a token
\* frame is still in its buffer and while body bytes are still unread.
C2_Witness ==
    \E r \in reqs :
        LET q == req[r]
        IN  /\ DoneParsed(q)
            /\ q.gen = "returned"
            /\ q.pos < Len(q.body)
            /\ Drain(q.buffer \o SubSeq(q.body, q.pos + 1, Len(q.body)), <<>>).tokens # <<>>

\* C3: a line with text that is not a JSON frame is yielded as a token equal
\* to the line's text (here even up to surrounding whitespace and
\* undecodable bytes) and does not abort the sequence.
C3_MalformedLinesTolerated ==
    [][\A r \in reqs :
          LET q == req[r]
              nl == Find(q.buffer)
              raw == SubSeq(q.buffer, 1, nl)
              text == Strip(Decode(raw))
          IN  (/\ q.gen = "scan"
               /\ nl # -1
               /\ text # <<>>
               /\ ~IsFrame(raw)
               /\ req'[r] # q) =>
                  /\ req'[r].gen = "yielded"
                  /\ req'[r].token = text
                  /\ req'[r].yielded = Append(q.yielded, text)]_vars

\* C4: when the backend answers with a non-success status, no token is
\* yielded or reaches the client, and the finished request shows the backend
\* error: an error response of POST /query, the error marker of GET /chat-sse.
C4_HandshakeFailure ==
    \A r \in reqs :
        LET q == req[r]
            detail == OllamaErrorDetail(q.status, q.body)
        IN  (q.status # 0 /\ q.status \notin 200 .. 299) =>
               /\ q.yielded = <<>>
               /\ q.endpoint = "query" => q.out = <<>>
               /\ (q.pc = "done" /\ q.endpoint = "query") =>
                    (q.kind = "error" /\ q.detail = detail)
               /\ (q.pc = "done" /\ q.endpoint = "sse") =>
                    q.out = <<SseUnit(BackendErrorTag \o detail)>>

\* One unit per token, in order.
Units(toks) == [i \in 1 .. Len(toks) |-> SseUnit(toks[i])]

\* The tokens the consumer has received: all yielded ones but the pending one.
Received(q) ==
    IF q.gen = "yielded" THEN SubSeq(q.yielded, 1, Len(q.yielded) - 1)
    ELSE q.yielded

\* C5: GET /chat-sse sends one unit per token in the order the relay yields
\* them, and when the relay ends cleanly after t1..tn the output is exactly
\* those n units followed by the single unit [END].
C5_LiveCleanCompletion ==
    \A r \in reqs :
        LET q == req[r]
        IN  q.endpoint = "sse" =>
               /\ q.pc = "streaming" => q.out = Units(Received(q))
               /\ (q.pc = "done" /\ q.gen = "returned") =>
                    q.out = Units(q.yielded) \o <<SseUnit(EndMarker)>>

\* C5 witness: two tokens then a clean end: exactly three units were sent.
C5_Witness ==
    \E r \in reqs :
        /\ req[r].endpoint = "sse"
        /\ req[r].pc = "done"
        /\ req[r].gen = "returned"
        /\ Len(req[r].yielded) = 2
        /\ Len(req[r].out) = 3

\* C6: when the relay fails after k tokens, the output of GET /chat-sse is
\* those k units followed by exactly one error marker carrying the failure
\* detail and nothing else (no [END]); the response stays the 200 stream.
C6_LiveFailure ==
    \A r \in reqs :
        LET q == req[r]
        IN  (q.endpoint = "sse" /\ q.pc = "done" /\ q.gen = "raised") =>
               /\ q.out = Units(q.yielded)
                            \o <<SseUnit(BackendErrorTag \o q.error.detail)>>
               /\ q.http_status = 200
               /\ q.kind = "stream"

\* C6 witness: a read fails after a token was forwarded.
C6_Witness ==
    \E r \in reqs :
        /\ req[r].endpoint = "sse"
        /\ req[r].pc = "done"
        /\ req[r].gen = "raised"
        /\ req[r].error.type = "ReadError"
        /\ Len(req[r].yielded) >= 1

\* C7: when the relay ends cleanly after t1..tn, POST /query answers 200 with
\* reply = t1 + ... + tn.
C7_FullTextReply ==
    \A r \in reqs :
        LET q == req[r]
        IN  (q.endpoint = "query" /\ q.pc = "done" /\ q.gen = "returned") =>
               /\ q.kind = "reply"
               /\ q.http_status = 200
               /\ q.reply = Concat(q.yielded)
               /\ q.detail = <<>>

\* C7 witness: a reply made of two different tokens.
C7_Witness ==
    \E r \in reqs :
        /\ req[r].endpoint = "query"
        /\ req[r].kind = "reply"
        /\ Len(req[r].yielded) = 2
        /\ req[r].yielded[1] # req[r].yielded[2]

\* C8: when the relay fails (at the handshake or after any number of
\* tokens), POST /query answers 500 with the failure detail and no reply.
C8_FullTextFailure ==
    \A r \in reqs :
        LET q == req[r]
        IN  (q.endpoint = "query" /\ q.pc = "done" /\ q.gen = "raised") =>
               /\ q.kind = "error"
               /\ q.http_status = 500
               /\ q.reply = <<>>
               /\ q.detail \in {q.error.detail,
                                <<"LLM error: ">> \o q.error.detail}

\* C8 witness: the relay failed after POST /query had received a token.
C8_Witness ==
    \E r \in reqs :
        /\ req[r].endpoint = "query"
        /\ req[r].pc = "done"
        /\ req[r].gen = "raised"
        /\ Len(req[r].out) >= 1

IsBlank(m) == \A i \in 1 .. Len(m) : m[i] \in {" ", "\t", "\r", "\n"}

Invalid(q) == q.pc # "idle" /\ (q.message = Missing \/ IsBlank(q.message))

NoWork(q) ==
    /\ q.pc = "done"
    /\ q.nRetrieve = 0 /\ q.nBuild = 0 /\ q.nBackend = 0
    /\ q.gen = "none"

\* C9 as stated: a missing, empty or whitespace-only message is rejected
\* before any retrieval, prompt or backend work, with a client error
\* response: 400 on POST /query, a 4xx or the inline error on GET /chat-sse.
C9_ValidationAsStated ==
    \A r \in reqs :
        LET q == req[r]
        IN  Invalid(q) =>
               /\ NoWork(q)
               /\ q.endpoint = "query" => q.http_status = 400
               /\ q.endpoint = "sse" =>
                    \/ q.http_status \in 400 .. 499
                    \/ q.out = <<SseUnit(MissingQueryMarker)>>

\* C9 amended: no retrieval, prompt or backend work is done for such a
\* message; a missing one is answered 422 by request validation, an empty or
\* whitespace-only one 400 by POST /query and, by GET /chat-sse, a 200 stream
\* whose only unit is the marker "[error] missing query".
C9_ValidationPrecedesWork ==
    \A r \in reqs :
        LET q == req[r]
        IN  Invalid(q) =>
               /\ NoWork(q)
               /\ q.message = Missing =>
                    (q.http_status = 422 /\ q.out = <<>>)
               /\ (q.message # Missing /\ q.endpoint = "query") =>
                    (q.http_status = 400 /\ q.kind = "error" /\ q.out = <<>>)
               /\ (q.message # Missing /\ q.endpoint = "sse") =>
                    /\ q.http_status = 200
                    /\ q.out = <<SseUnit(MissingQueryMarker)>>

\* C9 witness: POST /query has rejected a whitespace-only message.
C9_Witness ==
    \E r \in reqs :
        /\ req[r].endpoint = "query"
        /\ req[r].message = <<" ", "\t">>
        /\ req[r].http_status = 400

\* C10: when the embedding call, the search or the lookup raises, the
\* request goes on with empty history: the failure is logged, the prompt is
\* built from the empty history, the backend is asked, and the response is
\* the one generation alone decides.
C10_RetrievalDegrades ==
    \A r \in reqs :
        LET q == req[r]
        IN  q.fault =>
               /\ q.history = <<>>
               /\ q.logged \cap {"Retrieval failed"} # {}
               /\ q.nBuild = 1
               /\ q.prompt = build_prompt(<<>>, q.user_msg)
               /\ q.gen # "none"
               /\ q.gen = "created" => ENABLED ollama_stream_request(r)
               /\ q.gen \notin {"none", "created"} => q.nBackend = 1
               /\ (q.pc = "done" /\ q.gen = "returned" /\ q.endpoint = "query") =>
                    (q.kind = "reply" /\ q.reply = Concat(q.yielded))
               /\ (q.pc = "done" /\ q.gen = "returned" /\ q.endpoint = "sse") =>
                    q.out[Len(q.out)] = SseUnit(EndMarker)

\* C10 witness: retrieval failed and POST /query still returned a reply.
C10_Witness ==
    \E r \in reqs :
        /\ req[r].fault
        /\ req[r].pc = "done"
        /\ req[r].kind = "reply"
        /\ req[r].reply # <<>>

\* C11: context budget.  The text retrieval hands to the prompt is never
\* longer than LLM_CONTEXT_LIMIT; when the first identifier of the search
\* result names the entry id (whatever the other TOP_K - 1 identifiers are)
\* and retrieval did not fail, the text is the entry's text if that is within
\* the limit, and otherwise exactly its first LLM_CONTEXT_LIMIT characters.
C11_ContextBudget ==
    \A r \in reqs :
        LET q == req[r]
        IN  q.nRetrieve = 1 =>
              /\ Len(q.history) <= LLM_CONTEXT_LIMIT
              /\ \A id \in q.best_idx :
                    id \in 0 .. Len(df) - 1 =>
                      LET text == df[id + 1]
                      IN  IF Len(text) <= LLM_CONTEXT_LIMIT
                          THEN q.history = text
                          ELSE /\ Len(q.history) = LLM_CONTEXT_LIMIT
                               /\ IsPrefix(q.history, text)

\* A request whose nearest entry is longer than the limit and was clipped.
C11_Witness ==
    \E r \in reqs :
        \E id \in req[r].best_idx :
            /\ id \in 0 .. Len(df) - 1
            /\ Len(df[id + 1]) > LLM_CONTEXT_LIMIT
            /\ Len(req[r].history) = LLM_CONTEXT_LIMIT
            /\ req[r].gen = "created"

\* A unit whose payload starts with the error tag.
IsErrorUnit(unit) ==
    LET bare == SseUnit(BackendErrorTag)
    IN  /\ Len(unit) >= Len(bare)
        /\ unit = SseUnit(BackendErrorTag
                            \o SubSeq(unit, Len(bare) - 1, Len(unit) - 2))

\* C12: a sequence ended by a failed read of the body never looks like a
\* clean end.  The generator ends by raising, never by returning; POST /query
\* then answers an error and no reply; GET /chat-sse sends, after the units of
\* the tokens, exactly one unit, which is an error marker and not [END].
C12_TransportFailureDistinct ==
    \A r \in reqs :
        LET q == req[r]
        IN  q.dropped =>
              /\ q.gen = "raised"
              /\ q.error # NoError
              /\ q.pc = "done" =>
                    /\ q.kind # "reply"
                    /\ q.endpoint = "query" => q.http_status >= 500
                    /\ q.endpoint = "sse" =>
                          /\ Len(q.out) = Len(q.yielded) + 1
                          /\ q.out[Len(q.out)] # SseUnit(EndMarker)
                          /\ IsErrorUnit(q.out[Len(q.out)])

\* A live stream that lost its connection after a token and was closed.
C12_Witness ==
    \E r \in reqs :
        /\ req[r].dropped
        /\ req[r].endpoint = "sse"
        /\ req[r].pc = "done"
        /\ Len(req[r].yielded) >= 1
        /\ req[r].pos < Len(req[r].body)

\* C13: no retries.  A request posts to the backend at most once, and what
\* it posts carries its prompt and "stream": true; a request whose generation
\* failed has posted exactly once, and once it is answered the failure has
\* been reported once: POST /query answers one error, GET /chat-sse has sent
\* one error marker after the units of the tokens, and none when the
\* generation ended cleanly.  A request that was rejected has posted nothing.
C13_NoRetries ==
    \A r \in reqs :
        LET q == req[r]
            last == q.out[Len(q.out)]
        IN  /\ q.nBackend <= 1
            /\ Cardinality(q.sent) = q.nBackend
            /\ \A p \in q.sent : p.stream = TRUE /\ p.prompt = q.prompt
            /\ q.gen = "raised" => q.nBackend = 1
            /\ q.gen \in {"none", "created"} => q.nBackend = 0
            /\ (q.pc = "done" /\ q.gen = "raised") =>
                  IF q.endpoint = "query"
                  THEN q.kind = "error" /\ q.reply = <<>>
                  ELSE Len(q.out) = Len(q.yielded) + 1 /\ IsErrorUnit(last)
            /\ (q.pc = "done" /\ q.gen = "returned" /\ q.endpoint = "sse") =>
                  Len(q.out) = Len(q.yielded) + 1 /\ ~IsErrorUnit(last)

\* A request whose backend answered an error status and which was answered.
C13_Witness ==
    \E r \in reqs :
        /\ req[r].pc = "done"
        /\ req[r].gen = "raised"
        /\ req[r].status >= 400
        /\ req[r].nBackend = 1

\* C14: build_prompt.  Every accepted request gets a prompt (building it
\* cannot fail), and the prompt is determined by the history and the query:
\* the role statement, a line "---", the history verbatim on its own lines
\* (an empty line when there is none), a line "---", the introduction, the
\* query verbatim between double quotes, and the instruction, in this order
\* and nothing else.
C14_PromptShape ==
    \A r \in reqs :
        LET q == req[r]
            p == q.prompt
            n == Len(q.history)
            m == Len(q.user_msg)
        IN  /\ q.nRetrieve = 1 => q.nBuild = 1 /\ q.gen # "none"
            /\ q.nBuild = 1 =>
                  /\ Len(p) = n + m + 9
                  /\ p[1] = RoleStatement
                  /\ p[2] = Delimiter /\ p[3] = "\n"
                  /\ SubSeq(p, 4, n + 3) = q.history
                  /\ p[n + 4] = "\n" /\ p[n + 5] = Delimiter
                  /\ p[n + 6] = QueryIntro
                  /\ p[n + 7] = "\""
                  /\ SubSeq(p, n + 8, n + m + 7) = q.user_msg
                  /\ p[n + m + 8] = "\""
                  /\ p[n + m + 9] = Instruction

\* A prompt built without history: the two delimiters enclose an empty line.
C14_Witness ==
    \E r \in reqs :
        /\ req[r].nBuild = 1
        /\ req[r].history = <<>>
        /\ req[r].user_msg # <<>>
        /\ SubSeq(req[r].prompt, 2, 5) = <<Delimiter, "\n", "\n", Delimiter>>

\* The positions of the newline bytes of a buffer.
Newlines(buf) == {i \in 1 .. Len(buf) : buf[i] = "\n"}

\* C15: the byte buffer.  Whenever the generator waits for the next read the
\* buffer holds no newline byte; and every iteration of the line loop on a
\* buffer with a newline removes the bytes up to and including the first
\* newline, exactly, and leaves the bytes after it as they are, while an
\* iteration on a buffer without newline leaves the buffer alone and goes to
\* the next read.
C15_BufferInvariant ==
    /\ [](\A r \in reqs : req[r].gen = "read" => Newlines(req[r].buffer) = {})
    /\ [][\A r \in reqs :
            (req[r].gen = "scan" /\ req'[r] # req[r]) =>
              LET buf == req[r].buffer
                  nls == Newlines(buf)
              IN  IF nls = {}
                  THEN req'[r].buffer = buf /\ req'[r].gen = "read"
                  ELSE LET nl == CHOOSE i \in nls : \A j \in nls : i <= j
                       IN  /\ req'[r].buffer = SubSeq(buf, nl + 1, Len(buf))
                           /\ req'[r].gen # "read"]_vars

\* The generator waits for a read after it took a line out of the buffer and
\* kept the beginning of the next line.
C15_Witness ==
    \E r \in reqs :
        /\ req[r].gen = "read"
        /\ req[r].buffer # <<>>
        /\ Len(req[r].yielded) >= 1
        /\ Newlines(SubSeq(req[r].body, 1, req[r].pos)) # {}

\* The tokens a sequence of frames stands for: the non-empty "response" of
\* each frame, in order, up to the first frame with a true "done".
RECURSIVE FrameTokens(_)
FrameTokens(raws) ==
    IF raws = <<>> THEN <<>>
    ELSE LET o == json_loads(Strip(Decode(Head(raws)))).val
             response == DictGet(o, KeyResponse, [t |-> "str", v |-> <<>>])
         IN  IF Truthy(DictGet(o, KeyDone, JNull)) THEN <<>>
             ELSE IF response.v # <<>>
             THEN <<response.v>> \o FrameTokens(Tail(raws))
             ELSE FrameTokens(Tail(raws))

\* C16: token extraction.  In front of a backend that writes frames, the
\* tokens the generator has yielded are, at every moment, the non-empty
\* "response" texts of the frames it has taken out of the buffer before a
\* frame with a true "done", one token per such frame and in the order of the
\* frames; a frame whose "response" is empty or absent gives no token, and
\* members other than "response" and "done" play no part.
C16_TokenExtraction ==
    \A r \in reqs :
        LET q == req[r]
        IN  (Started(q) /\ q.status = 200) =>
              q.yielded = FrameTokens(SplitLines(Consumed(q)))

\* A frame without text and a frame with further members were taken out of
\* the buffer: one token was yielded.
C16_Witness ==
    \E r \in reqs :
        LET q == req[r]
        IN  /\ Started(q) /\ q.status = 200
            /\ q.body = FrameLines[3] \o <<"\n">> \o FrameLines[2] \o <<"\n">>
            /\ q.gen = "returned"
            /\ q.yielded = << <<"l", "o">> >>

\* What a request has delivered to its client so far is made of its own
\* backend response: its buffer is a piece of its own body, its tokens are the
\* first tokens of its own body in order, and its output carries exactly the
\* tokens received (one unit each on GET /chat-sse, before the final marker).
OwnResponseOnly(q) ==
    LET whole == Drain(q.body, <<>>).tokens
    IN  (Started(q) /\ q.status \in 200 .. 399) =>
          /\ Len(q.buffer) <= q.pos
          /\ q.buffer = SubSeq(q.body, q.pos - Len(q.buffer) + 1, q.pos)
          /\ IsPrefix(q.yielded, whole)
          /\ IF q.endpoint = "query" THEN q.out = Received(q)
             ELSE IF q.pc = "streaming" THEN q.out = Units(Received(q))
             ELSE SubSeq(q.out, 1, Len(q.out) - 1) = Units(q.yielded)

\* C17: request isolation.  With two requests in flight and their steps
\* interleaved in every way, each request delivers the tokens of its own
\* backend response only, in the backend's order, and a step of one request
\* changes nothing of the other.
C17_RequestIsolation ==
    /\ [](\A r \in reqs : OwnResponseOnly(req[r]))
    /\ [][\A r1, r2 \in reqs :
            r1 # r2 => req'[r1] = req[r1] \/ req'[r2] = req[r2]]_vars

\* Both requests are in the middle of different responses: each has yielded
\* a token and holds the beginning of a further line.
C17_Witness ==
    /\ Cardinality(reqs) = 2
    /\ \A r \in reqs :
          /\ req[r].pc = "streaming"
          /\ Len(req[r].yielded) >= 1
          /\ req[r].buffer # <<>>
    /\ \E r1, r2 \in reqs :
          /\ req[r1].body # req[r2].body
          /\ req[r1].endpoint # req[r2].endpoint

TerminatedPart(body) ==
    SubSeq(body, 1, IF Newlines(body) = {} THEN 0
                    ELSE CHOOSE i \in Newlines(body) :
                             \A j \in Newlines(body) : j <= i)
LeftOver(body) == SubSeq(body, Len(TerminatedPart(body)) + 1, Len(body))

\* C19: end of body without done.  When the body has been read to its end
\* and no done frame was parsed, the generator can end, and ends by
\* returning, without an error; the tokens it has yielded are those of the
\* newline-terminated lines only, and the bytes after the last newline stay
\* in the buffer and never become a token; GET /chat-sse then closes with
\* [END] and POST /query answers 200 with the tokens joined.
C19_EndWithoutDone ==
    \A r \in reqs :
        LET q == req[r]
            tokens == Drain(TerminatedPart(q.body), <<>>).tokens
        IN  (Started(q) /\ q.status = 200 /\ ~DoneParsed(q)) =>
              /\ (q.gen = "read" /\ q.pos = Len(q.body)) =>
                    /\ ENABLED ollama_stream_eof(r)
                    /\ q.buffer = LeftOver(q.body)
              /\ q.gen = "yielded" => IsPrefix(q.yielded, tokens)
              /\ q.gen = "returned" =>
                    /\ q.error = NoError
                    /\ q.yielded = tokens
                    /\ q.buffer = LeftOver(q.body)
                    /\ q.pc = "done" =>
                          IF q.endpoint = "sse"
                          THEN q.out = Units(tokens) \o <<SseUnit(EndMarker)>>
                          ELSE /\ q.kind = "reply" /\ q.http_status = 200
                               /\ q.reply = Concat(tokens)

\* A live stream closed with [END] while a complete token frame that no
\* newline followed is still in the buffer.
C19_Witness ==
    \E r \in reqs :
        LET q == req[r]
        IN  /\ q.endpoint = "sse" /\ q.pc = "done" /\ q.gen = "returned"
            /\ q.buffer = TokenFrame(<<"l", "l", "o">>)
            /\ q.out = <<SseUnit(<<"H", "e">>), SseUnit(EndMarker)>>

(***************************************************************************)
(* The client of the event stream.  It reads the bytes line by line: a     *)
(* line "data: <text>" adds <text> to the event being read, a blank line   *)
(* closes the event if it has any data line (several are joined by a       *)
(* newline), and any other line is ignored.                                *)
(***************************************************************************)
DataField == <<"d", "a", "t", "a", ":">>

RECURSIVE ClientRead(_, _, _)
ClientRead(lines, data, events) ==
    IF lines = <<>> THEN events
    ELSE LET line == Head(lines)
             value == SubSeq(line, Len(DataField) + 1, Len(line))
             text == IF value # <<>> /\ Head(value) = " " THEN Tail(value)
                     ELSE value
         IN  IF line = <<>>
             THEN ClientRead(Tail(lines), <<>>,
                             IF data = <<>> THEN events
                             ELSE Append(events, Tail(data)))
             ELSE IF IsPrefix(DataField, line)
             THEN ClientRead(Tail(lines), data \o <<"\n">> \o text, events)
             ELSE ClientRead(Tail(lines), data, events)

\* The payloads of the units the client has read from what was sent.
ClientEvents(q) == ClientRead(SplitLines(Concat(q.out)), <<>>, <<>>)

\* C20: the markers of GET /chat-sse are unambiguous.  In what the client
\* reads from an accepted request's stream, the payload [END] is the last
\* unit of a stream that ended cleanly and nothing else, a payload that
\* starts with [Backend error] is the last unit of a stream that failed and
\* nothing else, and there is one unit per token forwarded, plus the final
\* marker.
C20_MarkersUnambiguous ==
    \A r \in reqs :
        LET q == req[r]
            events == ClientEvents(q)
            tag == SubSeq(BackendErrorTag, 1, Len(BackendErrorTag) - 1)
        IN  (q.endpoint = "sse" /\ q.nBuild = 1) =>
              /\ \A i \in 1 .. Len(events) :
                    events[i] = EndMarker =>
                      i = Len(events) /\ q.pc = "done" /\ q.gen = "returned"
              /\ \A i \in 1 .. Len(events) :
                    IsPrefix(tag, events[i]) =>
                      i = Len(events) /\ q.pc = "done" /\ q.gen = "raised"
              /\ Len(events) = Len(q.out)

====
